---- MODULE Spec2Model ----
(***************************************************************************)
(* Model of the intrusive, index-based doubly linked list of               *)
(* src/src/list.rs (List<CAP>): the fields links/head/tail and the         *)
(* operations new, is_empty, push_front, remove, pop_back and pop_front;   *)
(* of the LRU-K cache the design builds on two such lists; and of the      *)
(* pollution scenario of src/tests.                                        *)
(*                                                                         *)
(* Option<Id> is encoded as an integer: Some(id) is id, None is -1 (a      *)
(* value outside the unsigned range of Id).  Id is u32 in the source; TLC  *)
(* integers are 32-bit signed, so the model gives Id a width of IdBits     *)
(* bits, wide enough for every slot index and for ids beyond CAP.          *)
(***************************************************************************)
EXTENDS Integers, Sequences, FiniteSets, TLC

\* Capacity of the list under analysis (the const generic CAP).
CAP == 4

\* Option::None.
None == -1

\* Width in bits of the model's Id type (type Id = u32 in the source).
IdBits == 3

\* const INVALID: Id = Id::MAX
INVALID == (2 ^ IdBits) - 1

\* Width in bits of usize, the type of the const generic CAP: twice the
\* width of Id, as on a 64-bit target.  The cast `id as usize` widens, so
\* it keeps the value of id.
UsizeBits == 2 * IdBits

\* Capacities List<CAP> is probed with: every usize value.
ProbeCaps == 0 .. ((2 ^ UsizeBits) - 1)

\* Ids the capacity probe pushes: the first id and the sentinel.
ProbeIds == {0, INVALID}

\* Most contract-violating calls (push_front of a linked id, remove of an
\* unlinked in-range id) a caller makes in one run.
MaxViolations == 1

\* Capacity N of the cache (number of arena slots it allocates); the cache
\* keeps its two lists in List<CAP>, so CacheCap <= CAP.
CacheCap == 2

\* Number of reference timestamps kept per entry (the K of LRU-K).
K == 2

\* Length of the correlated reference period, in ticks of the logical clock.
CorrelatedPeriod == 1

\* Most references (ticks of the logical clock) in a run of free get/put
\* calls.
MaxClock == 6

\* Most accesses beyond the minimum in the warm-up (2H) and in the cold scan
\* (H) of the pollution scenario.
MaxExtra == 1

\* Slot indices of the links array.
Slots == 0 .. (CAP - 1)

\* Ids a caller may pass: every in-range id, the first out-of-range id and
\* the largest Id.
CallIds == Slots \cup {CAP, INVALID}

VARIABLES
    links,      \* List::links : [Links; CAP]
    head,       \* List::head  : Option<Id>
    tail,       \* List::tail  : Option<Id>
    pushlog,    \* history: ids pushed and not removed since, oldest push first
    last,       \* history: the last call, its argument, result and outcome
    before,     \* history: the list as it was when the last call started
    violations, \* history: number of contract-violating calls made so far
    probe,      \* a List of some other capacity, and the one call made on it
    cache,      \* the LRU-K cache: arena, key index, two lists, clock
    clast,      \* history: the last cache call, its outcome, the cache before
    run,        \* the pollution scenario of the tests: phase, the Runner's
                \* LruCache, the Metrics of the current loop
    lruk        \* history: what the same scenario does to the LRU-K cache

vars == <<links, head, tail, pushlog, last, before, violations, probe,
          cache, clast, run, lruk>>

\* The variables of the cache and of the scenario that drives it.
cachevars == <<cache, clast, run, lruk>>

\* The variables of the List<CAP> under analysis.
listvars == <<links, head, tail, pushlog, last, before, violations>>

----------------------------------------------------------------------------
(* Data *)

\* Links::new()
LinksNew == [next |-> None, prev |-> None]

\* List::new()
ListNew == [links |-> [i \in Slots |-> LinksNew], head |-> None, tail |-> None]

\* List::new() for a list of capacity cap.
ListNewCap(cap) ==
    [links |-> [i \in 0 .. (cap - 1) |-> LinksNew], head |-> None, tail |-> None]

\* The list object assembled from its three fields.
self == [links |-> links, head |-> head, tail |-> tail]

----------------------------------------------------------------------------
(* Operations of List, as functions from the list before to the list after *)

\* List::is_empty
is_empty(l) == l.head = None

\* push_front without the back link of the old head.
push_front_no_backlink(l, id) ==
    IF ~(id < CAP)
    THEN [list |-> l, panicked |-> TRUE]
    ELSE LET old_head == l.head
             s1 == [l EXCEPT !.head = id]
             s2 == IF s1.tail = None THEN [s1 EXCEPT !.tail = id] ELSE s1
             s3 == [s2 EXCEPT !.links[id] = [next |-> old_head, prev |-> None]]
         IN  [list |-> s3, panicked |-> FALSE]

\* push_front that never sets the tail.
push_front_no_tail(l, id) ==
    IF ~(id < CAP)
    THEN [list |-> l, panicked |-> TRUE]
    ELSE LET old_head == l.head
             s1 == [l EXCEPT !.head = id]
             s3 == [s1 EXCEPT !.links[id] = [next |-> old_head, prev |-> None]]
             s4 == IF old_head # None
                   THEN [s3 EXCEPT !.links[old_head].prev = id]
                   ELSE s3
         IN  [list |-> s4, panicked |-> FALSE]

\* push_front whose bounds assertion comes after the first write.
push_front_late_assert(l, id) ==
    IF ~(id < CAP)
    THEN [list |-> [l EXCEPT !.head = id], panicked |-> TRUE]
    ELSE LET old_head == l.head
             s1 == [l EXCEPT !.head = id]
             s2 == IF s1.tail = None THEN [s1 EXCEPT !.tail = id] ELSE s1
             s3 == [s2 EXCEPT !.links[id] = [next |-> old_head, prev |-> None]]
             s4 == IF old_head # None
                   THEN [s3 EXCEPT !.links[old_head].prev = id]
                   ELSE s3
         IN  [list |-> s4, panicked |-> FALSE]

\* push_front that overwrites the whole Links of the old head, losing its
\* next.
push_front_clobbers_old_head(l, id) ==
    IF ~(id < CAP)
    THEN [list |-> l, panicked |-> TRUE]
    ELSE LET old_head == l.head
             s1 == [l EXCEPT !.head = id]
             s2 == IF s1.tail = None THEN [s1 EXCEPT !.tail = id] ELSE s1
             s3 == [s2 EXCEPT !.links[id] = [next |-> old_head, prev |-> None]]
             s4 == IF old_head # None
                   THEN [s3 EXCEPT !.links[old_head] =
                                        [next |-> None, prev |-> id]]
                   ELSE s3
         IN  [list |-> s4, panicked |-> FALSE]

\* List::push_front for a list of capacity cap.  The assertion is the first
\* statement: when it fails the call panics and nothing has been written.
push_front_cap(cap, l, id) ==
    IF ~(id < cap)
    THEN [list |-> l, panicked |-> TRUE]
    ELSE LET old_head == l.head
             s1 == [l EXCEPT !.head = id]
             s2 == IF s1.tail = None THEN [s1 EXCEPT !.tail = id] ELSE s1
             s3 == [s2 EXCEPT !.links[id] = [next |-> old_head, prev |-> None]]
             s4 == IF old_head # None
                   THEN [s3 EXCEPT !.links[old_head].prev = id]
                   ELSE s3
         IN  [list |-> s4, panicked |-> FALSE]

\* List::push_front of List<CAP>.
push_front(l, id) ==
    push_front_cap(CAP, l, id)

\* remove that does not clear the links of the removed slot.
remove_keep_links(l, id) ==
    IF id >= CAP
    THEN l
    ELSE LET next == l.links[id].next
             prev == l.links[id].prev
             s1 == IF prev # None
                   THEN [l EXCEPT !.links[prev].next = next]
                   ELSE [l EXCEPT !.head = next]
             s2 == IF next # None
                   THEN [s1 EXCEPT !.links[next].prev = prev]
                   ELSE [s1 EXCEPT !.tail = prev]
         IN  s2

\* remove that never updates the tail.
remove_no_tail(l, id) ==
    IF id >= CAP
    THEN l
    ELSE LET next == l.links[id].next
             prev == l.links[id].prev
             s1 == IF prev # None
                   THEN [l EXCEPT !.links[prev].next = next]
                   ELSE [l EXCEPT !.head = next]
             s2 == IF next # None
                   THEN [s1 EXCEPT !.links[next].prev = prev]
                   ELSE s1
         IN  [s2 EXCEPT !.links[id] = LinksNew]

\* remove that clears the successor's prev instead of rewiring it to the
\* removed id's predecessor.
remove_wrong_prev(l, id) ==
    IF id >= CAP
    THEN l
    ELSE LET next == l.links[id].next
             prev == l.links[id].prev
             s1 == IF prev # None
                   THEN [l EXCEPT !.links[prev].next = next]
                   ELSE [l EXCEPT !.head = next]
             s2 == IF next # None
                   THEN [s1 EXCEPT !.links[next].prev = None]
                   ELSE [s1 EXCEPT !.tail = prev]
         IN  [s2 EXCEPT !.links[id] = LinksNew]

\* remove whose range check is off by one (id > CAP): id = CAP wraps onto
\* the last slot.
remove_range_off_by_one(l, id) ==
    IF id > CAP
    THEN l
    ELSE LET i == IF id = CAP THEN CAP - 1 ELSE id
             next == l.links[i].next
             prev == l.links[i].prev
             s1 == IF prev # None
                   THEN [l EXCEPT !.links[prev].next = next]
                   ELSE [l EXCEPT !.head = next]
             s2 == IF next # None
                   THEN [s1 EXCEPT !.links[next].prev = prev]
                   ELSE [s1 EXCEPT !.tail = prev]
         IN  [s2 EXCEPT !.links[i] = LinksNew]

\* remove that never updates the head.
remove_no_head(l, id) ==
    IF id >= CAP
    THEN l
    ELSE LET next == l.links[id].next
             prev == l.links[id].prev
             s1 == IF prev # None
                   THEN [l EXCEPT !.links[prev].next = next]
                   ELSE l
             s2 == IF next # None
                   THEN [s1 EXCEPT !.links[next].prev = prev]
                   ELSE [s1 EXCEPT !.tail = prev]
         IN  [s2 EXCEPT !.links[id] = LinksNew]

\* remove with the two endpoint updates swapped (tail = next, head = prev).
remove_swapped_endpoints(l, id) ==
    IF id >= CAP
    THEN l
    ELSE LET next == l.links[id].next
             prev == l.links[id].prev
             s1 == IF prev # None
                   THEN [l EXCEPT !.links[prev].next = next]
                   ELSE [l EXCEPT !.tail = next]
             s2 == IF next # None
                   THEN [s1 EXCEPT !.links[next].prev = prev]
                   ELSE [s1 EXCEPT !.head = prev]
         IN  [s2 EXCEPT !.links[id] = LinksNew]

\* remove that clears only the next of the removed slot.
remove_keeps_prev(l, id) ==
    IF id >= CAP
    THEN l
    ELSE LET next == l.links[id].next
             prev == l.links[id].prev
             s1 == IF prev # None
                   THEN [l EXCEPT !.links[prev].next = next]
                   ELSE [l EXCEPT !.head = next]
             s2 == IF next # None
                   THEN [s1 EXCEPT !.links[next].prev = prev]
                   ELSE [s1 EXCEPT !.tail = prev]
         IN  [s2 EXCEPT !.links[id].next = None]

\* List::remove
remove(l, id) ==
    IF id >= CAP
    THEN l
    ELSE LET next == l.links[id].next
             prev == l.links[id].prev
             s1 == IF prev # None
                   THEN [l EXCEPT !.links[prev].next = next]
                   ELSE [l EXCEPT !.head = next]
             s2 == IF next # None
                   THEN [s1 EXCEPT !.links[next].prev = prev]
                   ELSE [s1 EXCEPT !.tail = prev]
         IN  [s2 EXCEPT !.links[id] = LinksNew]

\* pop_back that unlinks the head instead of the tail.
pop_back_takes_head(l) ==
    [list |-> IF l.head # None THEN remove(l, l.head) ELSE l, ret |-> l.head]

\* pop_back that returns the tail without unlinking it.
pop_back_keeps_tail(l) ==
    [list |-> l, ret |-> l.tail]

\* List::pop_back
pop_back(l) ==
    [list |-> IF l.tail # None THEN remove(l, l.tail) ELSE l, ret |-> l.tail]

\* pop_front that returns the head read after the removal.
pop_front_returns_new_head(l) ==
    LET after == IF l.head # None THEN remove(l, l.head) ELSE l
    IN  [list |-> after, ret |-> after.head]

\* List::pop_front
pop_front(l) ==
    [list |-> IF l.head # None THEN remove(l, l.head) ELSE l, ret |-> l.head]

----------------------------------------------------------------------------
(* History bookkeeping *)

\* The ids of a sequence.
Range(s) == {s[i] : i \in 1 .. Len(s)}

\* Sequence s with every occurrence of id deleted.
Without(s, id) == SelectSeq(s, LAMBDA x : x # id)

\* The caller's view: id has been pushed and not removed or popped since.
IsLinked(id) == id \in Range(pushlog)

Call(op, id, ret, panicked) ==
    [op |-> op, id |-> id, ret |-> ret, panicked |-> panicked]

----------------------------------------------------------------------------
(* The LRU-K cache: arena, history tracker, policy engine and facade.  The  *)
(* lists are the List<CAP> above; the rest follows sections 3 and 4 of the  *)
(* design.  Values are the unit type, as in the test harness.               *)

\* Arena slot ids of the cache.
CacheSlots == 0 .. (CacheCap - 1)

\* Hot keys of the pollution scenario: as many as the cache holds.
HotKeys == 0 .. (CacheCap - 1)

\* Keys of the cold scan: never-seen keys above the hot range.
ColdKeys == CacheCap .. ((2 * CacheCap) + MaxExtra - 1)

\* Every key of the model.
Keys == HotKeys \cup ColdKeys

\* Keys used by free get/put calls.
FreeKeys == 0 .. (CacheCap + 1)

\* The "infinite" K-backward-distance of an entry with fewer than K
\* references.
Infinite == 2 ^ 30

\* The two orders the design gives for choosing a victim: section 4.3
\* evicts the tail of correlated_list and consults retained_list only when
\* correlated_list is empty; section 2 evicts the tail of retained_list, and
\* the tail of correlated_list only when retained_list is empty.
EvictionOrders == {"correlated_first", "retained_first"}

\* A new, empty cache whose policy engine evicts in the given order.
CacheNew(order) ==
    [eviction_order |-> order,
     keys |-> [sl \in CacheSlots |-> None],
     history |-> [sl \in CacheSlots |-> <<>>],
     tag |-> [sl \in CacheSlots |-> "Unseen"],
     key_index |-> [k \in Keys |-> None],
     correlated_list |-> ListNew,
     retained_list |-> ListNew,
     logical_clock |-> 0]

\* len(): number of occupied arena slots.
len(c) == Cardinality({sl \in CacheSlots : c.keys[sl] # None})

\* reference_count(slot)
reference_count(c, sl) == Len(c.history[sl])

\* The reference at time now falls within the correlated reference period
\* of the last recorded reference of the slot.
in_correlated_period(c, sl, now) ==
    /\ c.history[sl] # <<>>
    /\ now - c.history[sl][Len(c.history[sl])] <= CorrelatedPeriod

\* record_reference(slot, now): append now, dropping the oldest timestamp
\* when the ring already holds K.
record_reference(c, sl, now) ==
    LET h == c.history[sl]
    IN  [c EXCEPT !.history[sl] =
            IF Len(h) = K THEN Append(Tail(h), now) ELSE Append(h, now)]

\* k_backward_distance(slot, now)
k_backward_distance(c, sl, now) ==
    IF reference_count(c, sl) = K
    THEN now - c.history[sl][1]
    ELSE Infinite

RECURSIVE rebuild_retained(_, _, _)
\* The reordering pass: link the remaining retained slots in front of l,
\* largest K-backward-distance first, so that it ends up nearest the tail.
rebuild_retained(c, remaining, l) ==
    IF remaining = {}
    THEN l
    ELSE LET far == CHOOSE x \in remaining :
                        \A y \in remaining :
                            k_backward_distance(c, x, c.logical_clock)
                                >= k_backward_distance(c, y, c.logical_clock)
         IN  rebuild_retained(c, remaining \ {far}, push_front(l, far).list)

\* retained_list ordered by ascending K-backward-distance from head to tail.
reorder_retained(c) ==
    [c EXCEPT !.retained_list =
        rebuild_retained(c, {sl \in CacheSlots : c.tag[sl] = "Retained"},
                         ListNew)]

\* A reference to an occupied slot (policy engine, 4.3): the clock ticks
\* once; a reference within the correlated period is ignored; otherwise the
\* timestamp is recorded and the slot is promoted, moved to the front of
\* correlated_list, or repositioned in retained_list.
reference(c, sl) ==
    LET now == c.logical_clock + 1
        c1 == [c EXCEPT !.logical_clock = now]
        c2 == record_reference(c1, sl, now)
    IN  IF in_correlated_period(c, sl, now)
        THEN c1
        ELSE IF c.tag[sl] = "Correlated"
        THEN IF reference_count(c2, sl) = K
             THEN [c2 EXCEPT
                      !.correlated_list = remove(@, sl),
                      !.retained_list = push_front(@, sl).list,
                      !.tag[sl] = "Retained"]
             ELSE [c2 EXCEPT
                      !.correlated_list = push_front(remove(@, sl), sl).list]
        ELSE reorder_retained(c2)

\* Eviction: in the order of 4.3, the tail of correlated_list when it is not
\* empty, otherwise the tail of retained_list after the reordering pass; in
\* the order of section 2, the tail of retained_list after the reordering
\* pass when it is not empty, otherwise the tail of correlated_list.  The
\* victim's key leaves the index and its slot is cleared.  Eviction from an
\* empty cache is fatal.
evict(c) ==
    LET sorted == reorder_retained(c)
        from_correlated == IF c.eviction_order = "correlated_first"
                           THEN ~is_empty(c.correlated_list)
                           ELSE is_empty(c.retained_list)
        r == IF from_correlated
             THEN pop_back(c.correlated_list)
             ELSE pop_back(sorted.retained_list)
        c1 == IF from_correlated
              THEN [c EXCEPT !.correlated_list = r.list]
              ELSE [sorted EXCEPT !.retained_list = r.list]
    IN  IF r.ret = None
        THEN [cache |-> c, victim |-> None, victim_key |-> None,
              from |-> "none", panicked |-> TRUE]
        ELSE [cache |-> [c1 EXCEPT !.key_index[c.keys[r.ret]] = None,
                                   !.keys[r.ret] = None,
                                   !.history[r.ret] = <<>>,
                                   !.tag[r.ret] = "Unseen"],
              victim |-> r.ret, victim_key |-> c.keys[r.ret],
              from |-> IF from_correlated THEN "correlated" ELSE "retained",
              panicked |-> FALSE]

\* A new entry for key in the free slot sl: first reference recorded, linked
\* at the front of correlated_list, registered in the key index.
insert(c, sl, key) ==
    LET now == c.logical_clock + 1
    IN  [c EXCEPT !.logical_clock = now,
                  !.keys[sl] = key,
                  !.history[sl] = <<now>>,
                  !.tag[sl] = "Correlated",
                  !.key_index[key] = sl,
                  !.correlated_list = push_front(@, sl).list]

\* The outcome of a cache call that returned.
Outcome(c, hit, ev) ==
    [cache |-> c, hit |-> hit, evicted |-> ev.victim # None,
     victim |-> ev.victim, victim_key |-> ev.victim_key, from |-> ev.from,
     panicked |-> FALSE]

\* The outcome of a cache call that hit the fatal condition: eviction
\* requested with nothing to evict.
Fatal(c) ==
    [cache |-> c, hit |-> FALSE, evicted |-> FALSE,
     victim |-> None, victim_key |-> None, from |-> "none",
     panicked |-> TRUE]

\* No eviction took place.
NoEviction == [victim |-> None, victim_key |-> None, from |-> "none"]

\* get that misses on every key.
get_always_misses(c, key) ==
    Outcome(c, FALSE, NoEviction)

\* get(key): on a hit records a reference; on a miss changes nothing.
get(c, key) ==
    IF c.key_index[key] # None
    THEN Outcome(reference(c, c.key_index[key]), TRUE, NoEviction)
    ELSE Outcome(c, FALSE, NoEviction)

\* peek(key): like get, without recording a reference.
peek(c, key) ==
    Outcome(c, c.key_index[key] # None, NoEviction)

\* put(key, ()): an existing key records a reference; a new key takes the
\* lowest free slot while capacity remains, and the evicted slot otherwise.
put(c, key) ==
    IF c.key_index[key] # None
    THEN Outcome(reference(c, c.key_index[key]), TRUE, NoEviction)
    ELSE IF len(c) < CacheCap
    THEN LET free == CHOOSE sl \in CacheSlots :
                        /\ c.keys[sl] = None
                        /\ \A t \in CacheSlots : c.keys[t] = None => sl <= t
         IN  Outcome(insert(c, free, key), FALSE, NoEviction)
    ELSE LET e == evict(c)
         IN  IF e.panicked
             THEN Fatal(c)
             ELSE Outcome(insert(e.cache, e.victim, key), FALSE, e)

\* The loop body of the harness applied to the LRU-K cache: get(k), and
\* put(k, ()) on a miss; the iteration counts as a hit when the get hit.
lruk_access(c, key) ==
    LET g == get(c, key)
    IN  IF g.hit THEN g ELSE [put(g.cache, key) EXCEPT !.hit = FALSE]

\* The loop body with the test on get inverted: a miss is taken for a hit
\* and the key is never put.
access_inverted_test(q, key) ==
    IF key \notin Range(q)
    THEN [cache |-> q, hit |-> TRUE, evicted |-> FALSE]
    ELSE [cache |-> <<key>> \o Without(q, key), hit |-> FALSE,
          evicted |-> FALSE]

\* The loop body of Runner::access_hot and Runner::scan_cold on the Runner's
\* cache, an lru::LruCache of capacity CacheCap held most recently used key
\* first: get(&k) of a cached key makes it the most recently used and the
\* iteration is a hit; otherwise the iteration is a miss and put(k, ())
\* inserts the key, dropping the least recently used one from a full cache.
access(q, key) ==
    IF key \in Range(q)
    THEN [cache |-> <<key>> \o Without(q, key), hit |-> TRUE,
          evicted |-> FALSE]
    ELSE [cache |-> <<key>> \o (IF Len(q) = CacheCap
                                 THEN SubSeq(q, 1, Len(q) - 1) ELSE q),
          hit |-> FALSE, evicted |-> Len(q) = CacheCap]

\* The keys in the cache.
CachedKeys(c) == {k \in Keys : c.key_index[k] # None}

\* The last cache call.
CacheCall(op, key, o, c) ==
    [op |-> op, key |-> key, hit |-> o.hit, evicted |-> o.evicted,
     victim |-> o.victim, victim_key |-> o.victim_key, from |-> o.from,
     panicked |-> o.panicked, before |-> c]

\* Metrics::new()
MetricsNew == [hits |-> 0, misses |-> 0]

\* Metrics::record_hit
record_hit(m) == [m EXCEPT !.hits = @ + 1]

\* Metrics::record_miss
record_miss(m) == [m EXCEPT !.misses = @ + 1]

\* Metrics::total
total(m) == m.hits + m.misses

\* The pollution scenario before its first access: an empty LruCache, and
\* no key accessed yet.
RunNew ==
    [phase |-> "warmup", n |-> 0, scan |-> 0, replay |-> 0,
     cache |-> <<>>, m |-> MetricsNew, hit |-> FALSE,
     seen |-> {}, misses |-> [k \in Keys |-> 0], evictions |-> 0]

\* What the scenario has done to the LRU-K cache, before its first access.
LrukNew ==
    [misses |-> [k \in Keys |-> 0], evictions |-> 0]

InitCache ==
    /\ \E order \in EvictionOrders :
          /\ cache = CacheNew(order)
          /\ clast = CacheCall("new", None,
                               Outcome(CacheNew(order), FALSE, NoEviction),
                               CacheNew(order))
    /\ run = RunNew
    /\ lruk = LrukNew

----------------------------------------------------------------------------
(* State machine *)

Init ==
    /\ links = ListNew.links
    /\ head = ListNew.head
    /\ tail = ListNew.tail
    /\ pushlog = <<>>
    /\ last = Call("new", None, None, FALSE)
    /\ before = ListNew
    /\ violations = 0
    /\ probe = [cap |-> CAP, id |-> None, list |-> ListNew,
                called |-> FALSE, panicked |-> FALSE]
    /\ InitCache

\* The list fields after a call that produced list l; v is 1 for a
\* contract-violating call and 0 otherwise.
Becomes(l, v) ==
    /\ links' = l.links
    /\ head' = l.head
    /\ tail' = l.tail
    /\ before' = self
    /\ violations' = violations + v
    /\ UNCHANGED probe
    /\ UNCHANGED cachevars

\* push_front(id) of an in-range id that is not linked.
PushFront(id) ==
    /\ id \in Slots
    /\ ~IsLinked(id)
    /\ LET r == push_front(self, id)
       IN  /\ Becomes(r.list, 0)
           /\ last' = Call("push_front", id, None, r.panicked)
           /\ pushlog' = IF r.panicked THEN pushlog ELSE Append(pushlog, id)

\* push_front(id) of an id outside [0, CAP): the assertion fails.
PushFrontOutOfRange(id) ==
    /\ id \notin Slots
    /\ LET r == push_front(self, id)
       IN  /\ Becomes(r.list, 0)
           /\ last' = Call("push_front", id, None, r.panicked)
           /\ pushlog' = IF r.panicked THEN pushlog ELSE Append(pushlog, id)

\* push_front(id) of an id that is still linked (the caller did not remove
\* it first).
PushFrontLinked(id) ==
    /\ violations < MaxViolations
    /\ id \in Slots
    /\ IsLinked(id)
    /\ LET r == push_front(self, id)
       IN  /\ Becomes(r.list, 1)
           /\ last' = Call("push_front", id, None, r.panicked)
           /\ pushlog' = IF r.panicked THEN pushlog
                         ELSE Append(Without(pushlog, id), id)

\* remove(id) of a linked id.
Remove(id) ==
    /\ id \in Slots
    /\ IsLinked(id)
    /\ Becomes(remove(self, id), 0)
    /\ last' = Call("remove", id, None, FALSE)
    /\ pushlog' = Without(pushlog, id)

\* remove(id) of an id outside [0, CAP).
RemoveOutOfRange(id) ==
    /\ id \notin Slots
    /\ Becomes(remove(self, id), 0)
    /\ last' = Call("remove", id, None, FALSE)
    /\ pushlog' = pushlog

\* remove(id) of an in-range id that is not linked.
RemoveUnlinked(id) ==
    /\ violations < MaxViolations
    /\ id \in Slots
    /\ ~IsLinked(id)
    /\ Becomes(remove(self, id), 1)
    /\ last' = Call("remove", id, None, FALSE)
    /\ pushlog' = pushlog

PopBack ==
    LET r == pop_back(self)
    IN  /\ Becomes(r.list, 0)
        /\ last' = Call("pop_back", None, r.ret, FALSE)
        /\ pushlog' = Without(pushlog, r.ret)

PopFront ==
    LET r == pop_front(self)
    IN  /\ Becomes(r.list, 0)
        /\ last' = Call("pop_front", None, r.ret, FALSE)
        /\ pushlog' = Without(pushlog, r.ret)

\* Calls that respect the caller's contract, and calls with an out-of-range
\* id.
Next ==
    \/ \E id \in CallIds : PushFront(id)
    \/ \E id \in CallIds : PushFrontOutOfRange(id)
    \/ \E id \in CallIds : Remove(id)
    \/ \E id \in CallIds : RemoveOutOfRange(id)
    \/ PopBack
    \/ PopFront

Spec == Init /\ [][Next]_vars

\* Every call the signatures allow, the contract-violating ones included.
NextAny ==
    \/ Next
    \/ \E id \in CallIds : PushFrontLinked(id)
    \/ \E id \in CallIds : RemoveUnlinked(id)

SpecAny == Init /\ [][NextAny]_vars

----------------------------------------------------------------------------
(* Capacity probe: List<cap>::new() for any capacity, then one push_front *)

InitProbe ==
    /\ links = ListNew.links
    /\ head = ListNew.head
    /\ tail = ListNew.tail
    /\ pushlog = <<>>
    /\ last = Call("new", None, None, FALSE)
    /\ before = ListNew
    /\ violations = 0
    /\ probe \in {[cap |-> c, id |-> i, list |-> ListNewCap(c),
                   called |-> FALSE, panicked |-> FALSE] :
                      c \in ProbeCaps, i \in ProbeIds}
    /\ InitCache

\* push_front(probe.id) on the new list of capacity probe.cap.
ProbePushFront ==
    /\ ~probe.called
    /\ LET r == push_front_cap(probe.cap, probe.list, probe.id)
       IN  probe' = [probe EXCEPT !.list = r.list,
                                  !.called = TRUE,
                                  !.panicked = r.panicked]
    /\ UNCHANGED listvars
    /\ UNCHANGED cachevars

NextProbe ==
    ProbePushFront

SpecProbe == InitProbe /\ [][NextProbe]_vars

----------------------------------------------------------------------------
(* Free get/put/peek calls on the cache *)

\* get(key)
Get(key) ==
    /\ cache.logical_clock < MaxClock
    /\ LET o == get(cache, key)
       IN  /\ cache' = o.cache
           /\ clast' = CacheCall("get", key, o, cache)
    /\ UNCHANGED <<run, lruk, probe>>
    /\ UNCHANGED listvars

\* put(key, ())
Put(key) ==
    /\ cache.logical_clock < MaxClock
    /\ LET o == put(cache, key)
       IN  /\ cache' = o.cache
           /\ clast' = CacheCall("put", key, o, cache)
    /\ UNCHANGED <<run, lruk, probe>>
    /\ UNCHANGED listvars

\* peek(key)
Peek(key) ==
    /\ LET o == peek(cache, key)
       IN  /\ cache' = o.cache
           /\ clast' = CacheCall("peek", key, o, cache)
    /\ UNCHANGED <<run, lruk, probe>>
    /\ UNCHANGED listvars

NextCache ==
    \/ \E key \in FreeKeys : Get(key)
    \/ \E key \in FreeKeys : Put(key)
    \/ \E key \in FreeKeys : Peek(key)

SpecCache == Init /\ [][NextCache]_vars

----------------------------------------------------------------------------
(* The pollution scenario of the test harness: warm-up over the hot keys,  *)
(* one pass over the cold keys, replay of the hot keys.  The harness runs  *)
(* it on an lru::LruCache (run); the same accesses are made on the LRU-K   *)
(* cache (cache, lruk), under either eviction order.                       *)

\* The Runner after one iteration of a loop on key with outcome lo, m being
\* the Metrics of the loop before the iteration: the cache is the one the
\* iteration left, and the iteration is recorded as a hit or as a miss.
Counted(key, lo, m) ==
    [run EXCEPT !.cache = lo.cache,
                !.hit = lo.hit,
                !.m = IF lo.hit THEN record_hit(m) ELSE record_miss(m),
                !.seen = @ \cup {key},
                !.misses[key] = IF lo.hit THEN @ ELSE @ + 1,
                !.evictions = IF lo.evicted THEN @ + 1 ELSE @]

\* The same iteration on the LRU-K cache, with outcome o.
Observed(key, o) ==
    [lruk EXCEPT !.misses[key] = IF o.hit THEN @ ELSE @ + 1,
                 !.evictions = IF o.evicted THEN @ + 1 ELSE @]

\* Runner::access_hot, one iteration of the warm-up.
WarmUp(key) ==
    /\ run.phase = "warmup"
    /\ run.n < (2 * CacheCap) + MaxExtra
    /\ LET o == lruk_access(cache, key)
           lo == access(run.cache, key)
       IN  /\ cache' = o.cache
           /\ clast' = CacheCall("lruk_access", key, o, cache)
           /\ run' = IF o.panicked
                     THEN [run EXCEPT !.phase = "aborted"]
                     ELSE [Counted(key, lo, run.m) EXCEPT !.n = @ + 1]
           /\ lruk' = IF o.panicked THEN lruk ELSE Observed(key, o)
    /\ UNCHANGED probe
    /\ UNCHANGED listvars

\* Runner::scan_cold, one iteration: key hot_size + i.  The first iteration
\* follows a warm-up of at least 2H accesses and starts from fresh Metrics.
ScanCold ==
    /\ \/ run.phase = "warmup" /\ run.n >= 2 * CacheCap
       \/ run.phase = "scan" /\ run.scan < CacheCap + MaxExtra
    /\ LET key == CacheCap + run.scan
           o == lruk_access(cache, key)
           lo == access(run.cache, key)
           m == IF run.phase = "warmup" THEN MetricsNew ELSE run.m
       IN  /\ cache' = o.cache
           /\ clast' = CacheCall("lruk_access", key, o, cache)
           /\ run' = IF o.panicked
                     THEN [run EXCEPT !.phase = "aborted"]
                     ELSE [Counted(key, lo, m) EXCEPT
                             !.phase = "scan",
                             !.scan = @ + 1]
           /\ lruk' = IF o.panicked THEN lruk ELSE Observed(key, o)
    /\ UNCHANGED probe
    /\ UNCHANGED listvars

\* Runner::access_hot, one iteration of the replay of H hot accesses right
\* after a scan of at least H cold keys; the first iteration starts from
\* fresh Metrics.
Replay(key) ==
    /\ \/ run.phase = "scan" /\ run.scan >= CacheCap
       \/ run.phase = "replay"
    /\ LET o == lruk_access(cache, key)
           lo == access(run.cache, key)
           m == IF run.phase = "scan" THEN MetricsNew ELSE run.m
       IN  /\ cache' = o.cache
           /\ clast' = CacheCall("lruk_access", key, o, cache)
           /\ run' = IF o.panicked
                     THEN [run EXCEPT !.phase = "aborted"]
                     ELSE [Counted(key, lo, m) EXCEPT
                             !.phase = IF run.replay + 1 = CacheCap
                                       THEN "done" ELSE "replay",
                             !.replay = @ + 1]
           /\ lruk' = IF o.panicked THEN lruk ELSE Observed(key, o)
    /\ UNCHANGED probe
    /\ UNCHANGED listvars

NextScan ==
    \/ \E key \in HotKeys : WarmUp(key)
    \/ ScanCold
    \/ \E key \in HotKeys : Replay(key)

SpecScan == Init /\ [][NextScan]_vars

----------------------------------------------------------------------------
(* Traversals *)

RECURSIVE WalkNext(_, _, _)
\* The ids met by following next from id at, at most fuel of them.
WalkNext(l, at, fuel) ==
    IF at = None \/ fuel = 0
    THEN <<>>
    ELSE <<at>> \o WalkNext(l, l.links[at].next, fuel - 1)

RECURSIVE WalkPrev(_, _, _)
\* The ids met by following prev from id at, at most fuel of them.
WalkPrev(l, at, fuel) ==
    IF at = None \/ fuel = 0
    THEN <<>>
    ELSE <<at>> \o WalkPrev(l, l.links[at].prev, fuel - 1)

\* Head-to-tail traversal.  A list of CAP slots holds at most CAP ids, so a
\* walk of CAP + 1 ids has met a cycle.
Forward(l) == WalkNext(l, l.head, CAP + 1)

\* Tail-to-head traversal.
Backward(l) == WalkPrev(l, l.tail, CAP + 1)

Reverse(s) == [i \in 1 .. Len(s) |-> s[Len(s) + 1 - i]]

\* No id occurs twice in s.
NoRepeat(s) == \A i, j \in 1 .. Len(s) : s[i] = s[j] => i = j

\* The last call unlinked an id: remove of an in-range id, or a pop that
\* returned one.
Unlinking ==
    \/ last.op = "remove" /\ last.id \in Slots
    \/ last.op \in {"pop_front", "pop_back"} /\ last.ret # None

\* The id the last call unlinked.
Unlinked == IF last.op = "remove" THEN last.id ELSE last.ret

----------------------------------------------------------------------------
(* Claims *)

\* C1: in every state reached by calls that respect the contract, the ids
\* met by following next from head are exactly the reverse of the ids met by
\* following prev from tail.
C1_ForwardIsReverseOfBackward ==
    Forward(self) = Reverse(Backward(self))

\* C1 witness: an interior id was removed from a full list, and the list
\* still holds several ids.
C1_Witness ==
    /\ last.op = "remove"
    /\ last.id \in Slots
    /\ before.links[last.id].next # None
    /\ before.links[last.id].prev # None
    /\ Len(Forward(before)) = CAP
    /\ Len(Backward(self)) = CAP - 1

\* C2: head is None iff tail is None iff no id is linked (is_empty); and
\* unlinking the only linked id leaves head = None, tail = None, is_empty.
C2_EmptyIffNoHeadNoTail ==
    /\ (head = None) = (tail = None)
    /\ (head = None) = (pushlog = <<>>)
    /\ is_empty(self) = (pushlog = <<>>)
    /\ (Unlinking /\ Len(Forward(before)) = 1)
          => (head = None /\ tail = None /\ is_empty(self))

\* C2 witness: the only linked id was removed.
C2_Witness ==
    /\ last.op = "remove"
    /\ last.id \in Slots
    /\ Forward(before) = <<last.id>>
    /\ is_empty(self)
    /\ tail = None

\* C3: push_front(id) of an in-range unlinked id makes id the head (and the
\* tail when the list was empty) with the former ids in their order behind
\* it; the head-to-tail order is the ids still linked, latest push first;
\* pop_front returns the most recently pushed id still linked and unlinks it.
C3_PushFrontPopFront ==
    [][ /\ (last'.op = "push_front" /\ ~last'.panicked)
            => /\ head' = last'.id
               /\ (is_empty(self) => tail' = last'.id)
               /\ (~is_empty(self) => tail' = tail)
               /\ Forward(self)' = <<last'.id>> \o Forward(self)
        /\ Forward(self)' = Reverse(pushlog')
        /\ (last'.op = "pop_front" /\ pushlog # <<>>)
            => /\ last'.ret = pushlog[Len(pushlog)]
               /\ pushlog' = SubSeq(pushlog, 1, Len(pushlog) - 1)
               /\ Forward(self)' = Tail(Forward(self))
        /\ (last'.op = "pop_front" /\ Len(pushlog) = 1)
            => is_empty(self)'
      ]_vars

\* C3 witness: pop_front returned the latest of several pushed ids.
C3_Witness ==
    /\ last.op = "pop_front"
    /\ last.ret # None
    /\ Len(Forward(before)) = CAP
    /\ Forward(self) = Tail(Forward(before))

\* C4: pop_back on a non-empty list returns and unlinks the tail, which is
\* the least recently pushed id still linked; the new tail is the former
\* tail's predecessor.
C4_PopBackIsOldest ==
    [][ (last'.op = "pop_back" /\ pushlog # <<>>)
            => /\ last'.ret = tail
               /\ last'.ret = Head(pushlog)
               /\ pushlog' = Tail(pushlog)
               /\ tail' = links[tail].prev
               /\ Forward(self)' = SubSeq(Forward(self), 1, Len(pushlog) - 1)
      ]_vars

\* C4 witness: pop_back returned the oldest of several pushed ids.
C4_Witness ==
    /\ last.op = "pop_back"
    /\ last.ret # None
    /\ Len(Backward(before)) = CAP
    /\ tail = before.links[last.ret].prev
    /\ tail # None

\* C5: remove(id) of a linked id at any position deletes exactly that id:
\* the head-to-tail order is the former one without id, and head and tail
\* move when id was an endpoint.
C5_RemoveDeletesExactlyId ==
    (last.op = "remove" /\ last.id \in Range(Forward(before)))
        => /\ Forward(self) = Without(Forward(before), last.id)
           /\ Backward(self) = Without(Backward(before), last.id)
           /\ Len(Forward(self)) = Len(Forward(before)) - 1
           /\ head = IF before.head = last.id
                     THEN before.links[last.id].next ELSE before.head
           /\ tail = IF before.tail = last.id
                     THEN before.links[last.id].prev ELSE before.tail

\* C5 witness: an interior id was removed.
C5_Witness ==
    /\ last.op = "remove"
    /\ last.id \in Range(Forward(before))
    /\ before.head # last.id
    /\ before.tail # last.id
    /\ Len(Forward(self)) >= 2

\* C6: right after remove(id), or a pop that returned id, both links of id
\* are None, no slot refers to id, neither head nor tail is id, and no
\* traversal visits id.
C6_NoOrphanedLinks ==
    Unlinking
        => /\ links[Unlinked] = LinksNew
           /\ \A i \in Slots :
                 links[i].next # Unlinked /\ links[i].prev # Unlinked
           /\ head # Unlinked
           /\ tail # Unlinked
           /\ Unlinked \notin Range(Forward(self))
           /\ Unlinked \notin Range(Backward(self))

\* C6 witness: pop_back returned an id and other ids stay linked.
C6_Witness ==
    /\ last.op = "pop_back"
    /\ last.ret \in Slots
    /\ Len(Forward(self)) >= 2
    /\ before.links[last.ret].prev # None

\* C7: push_front(id) of an id that is already linked never completes
\* normally, so the list never holds an id twice or a cycle.
C7_PushFrontOfLinkedFails ==
    /\ (/\ last.op = "push_front"
        /\ last.id \in Slots
        /\ last.id \in Range(Forward(before)))
          => last.panicked
    /\ Len(Forward(self)) <= CAP
    /\ NoRepeat(Forward(self))

\* C8: remove(id) of an id that is already unlinked leaves head, tail and
\* every slot's links as they were.
C8_RemoveOfUnlinkedChangesNothing ==
    (/\ last.op = "remove"
     /\ last.id \in Slots
     /\ last.id \notin Range(Forward(before)))
        => self = before

\* C9: remove(id) with id outside [0, CAP) does not fail and leaves head,
\* tail and all links unchanged.
C9_RemoveOutOfRangeIsNoOp ==
    (last.op = "remove" /\ last.id \notin Slots)
        => (~last.panicked /\ self = before)

\* C9 witness: remove of an out-of-range id was called on a non-empty list.
C9_Witness ==
    /\ last.op = "remove"
    /\ last.id = CAP
    /\ Len(Forward(self)) >= 2

\* C10: push_front(id) with id >= CAP panics before any field is written,
\* so no id outside [0, CAP) is ever linked.
C10_PushFrontOutOfRangeRejected ==
    /\ (last.op = "push_front" /\ last.id >= CAP)
          => (last.panicked /\ self = before)
    /\ head \in Slots \cup {None}
    /\ tail \in Slots \cup {None}
    /\ \A i \in Slots : /\ links[i].next \in Slots \cup {None}
                        /\ links[i].prev \in Slots \cup {None}
    /\ Range(pushlog) \subseteq Slots

\* C10 witness: push_front of an out-of-range id panicked on a non-empty
\* list.
C10_Witness ==
    /\ last.op = "push_front"
    /\ last.id = CAP
    /\ last.panicked
    /\ Len(Forward(self)) >= 2

\* C11: pop_front and pop_back on an empty list return None and leave the
\* list unchanged (empty, all links None); on a non-empty list they never
\* return None.
C11_PopOnEmptyIsNone ==
    last.op \in {"pop_front", "pop_back"}
        => /\ Forward(before) = <<>>
                => /\ last.ret = None
                   /\ self = before
                   /\ is_empty(self)
                   /\ \A i \in Slots : links[i] = LinksNew
           /\ Forward(before) # <<>> => last.ret # None

\* C11 witness: pop_back was called on an empty list.
C11_Witness ==
    /\ last.op = "pop_back"
    /\ last.ret = None
    /\ is_empty(before)
    /\ is_empty(self)

\* C16: push_front(id) of an in-range unlinked id changes only head, tail
\* (only when the list was empty), links[id] and the prev of the former
\* head.
C16_PushFrontFrame ==
    (last.op = "push_front" /\ ~last.panicked)
        => /\ \A i \in Slots \ {last.id} :
                 /\ links[i].next = before.links[i].next
                 /\ i # before.head => links[i].prev = before.links[i].prev
           /\ before.head # None => links[before.head].prev = last.id
           /\ before.tail # None => tail = before.tail
           /\ before.tail = None => tail = last.id
           /\ head = last.id
           /\ links[last.id] = [next |-> before.head, prev |-> None]

\* C16 witness: push_front onto a list that already held several ids.
C16_Witness ==
    /\ last.op = "push_front"
    /\ ~last.panicked
    /\ Len(Forward(before)) >= 2
    /\ links[before.head].next # None

\* C17: the chain from head is a simple path: no id twice, at most CAP ids,
\* it ends at tail, head has no prev and tail has no next.
C17_SimplePath ==
    LET f == Forward(self)
    IN  /\ NoRepeat(f)
        /\ Len(f) <= CAP
        /\ f = <<>> => (head = None /\ tail = None)
        /\ f # <<>> => /\ f[Len(f)] = tail
                       /\ links[head].prev = None
                       /\ links[tail].next = None

\* C17 witness: the list holds CAP ids.
C17_Witness ==
    /\ Len(Forward(self)) = CAP
    /\ last.op = "push_front"
    /\ head # tail

\* C18: from any state reached by contract-respecting calls, push_front(id)
\* of an unlinked in-range id followed by pop_front(), or by remove(id),
\* returns id and restores head, tail and every slot's links.
C18_PushThenPopRestores ==
    \A id \in Slots :
        ~IsLinked(id)
            => LET p == push_front(self, id)
               IN  /\ ~p.panicked
                   /\ pop_front(p.list) = [list |-> self, ret |-> id]
                   /\ remove(p.list, id) = self

\* C18 witness: pop_front returned an id from a list that is exactly what
\* pushing that id onto the present, non-empty list gives.
C18_Witness ==
    /\ last.op = "pop_front"
    /\ last.ret \in Slots
    /\ before = push_front(self, last.ret).list
    /\ Len(Forward(self)) >= 2

\* C19: every id that is not linked has next = None and prev = None; a
\* linked id with both links None is the single element, head = tail = id.
C19_OnlyLinkedIdsCarryLinks ==
    \A i \in Slots :
        /\ ~IsLinked(i) => links[i] = LinksNew
        /\ (IsLinked(i) /\ links[i] = LinksNew)
              => (head = i /\ tail = i /\ pushlog = <<i>>)

\* C19 witness: an interior id was unlinked and its neighbours stay linked.
C19_Witness ==
    /\ Unlinking
    /\ before.links[Unlinked].next # None
    /\ before.links[Unlinked].prev # None
    /\ links[Unlinked] = LinksNew
    /\ Len(pushlog) >= 2

\* C20: the sentinel INVALID is never a valid id: for every capacity,
\* push_front(INVALID) is rejected by the bounds check, so INVALID never
\* appears as head, tail, next or prev.
C20_SentinelNeverValid ==
    (probe.called /\ probe.id = INVALID)
        => /\ probe.panicked
           /\ probe.list.head # INVALID
           /\ probe.list.tail # INVALID
           /\ \A i \in DOMAIN probe.list.links :
                 /\ probe.list.links[i].next # INVALID
                 /\ probe.list.links[i].prev # INVALID

\* C12: for a cache of capacity N, after any sequence of get/put calls over
\* any number of distinct keys, len() never exceeds N; len() is the number
\* of indexed keys and the number of ids linked in correlated_list plus
\* retained_list.
C12_CapacityBound ==
    LET corr == Forward(cache.correlated_list)
        ret == Forward(cache.retained_list)
        occupied == {sl \in CacheSlots : cache.keys[sl] # None}
    IN  /\ len(cache) <= CacheCap
        /\ Cardinality(CachedKeys(cache)) = len(cache)
        /\ Len(corr) + Len(ret) = len(cache)
        /\ Range(corr) \cup Range(ret) = occupied
        /\ Range(corr) \cap Range(ret) = {}

\* C12 witness: a put of one more distinct key than the cache holds evicted
\* an entry and the cache is full again.
C12_Witness ==
    /\ clast.op = "put"
    /\ clast.evicted
    /\ len(cache) = CacheCap
    /\ Cardinality(CachedKeys(clast.before) \cup {clast.key}) = CacheCap + 1

\* C15: while the distinct keys accessed are no more than the capacity, the
\* loop 'get(k); on miss put(k)' evicts nothing: each key misses exactly
\* once, on its first access, every later access to it hits, and once all
\* keys are cached every access hits.  This holds of the harness loop on
\* its LruCache and of the same loop on the LRU-K cache.
C15_NoEvictionWithinCapacity ==
    Cardinality(run.seen) <= CacheCap
        => /\ run.evictions = 0
           /\ \A k \in Keys : run.misses[k] = IF k \in run.seen THEN 1 ELSE 0
           /\ run.seen = Range(run.cache)
           /\ run.phase = "warmup"
                 => /\ run.m.misses = Cardinality(run.seen)
                    /\ total(run.m) = run.n
           /\ lruk.evictions = 0
           /\ ~clast.panicked
           /\ \A k \in Keys : lruk.misses[k] = IF k \in run.seen THEN 1 ELSE 0
           /\ run.seen = CachedKeys(cache)
           /\ clast.op = "lruk_access"
                 => /\ clast.hit = (clast.key \in CachedKeys(clast.before))
                    /\ clast.hit = run.hit
                    /\ ~clast.evicted
                    /\ Cardinality(CachedKeys(clast.before)) = CacheCap
                          => clast.hit

\* C15 witness: every hot key has been touched and a further access hit a
\* full cache.
C15_Witness ==
    /\ run.phase = "warmup"
    /\ run.seen = HotKeys
    /\ Len(run.cache) = CacheCap
    /\ run.hit
    /\ run.m.hits > 0
    /\ run.m.misses = CacheCap
    /\ CachedKeys(clast.before) = HotKeys
    /\ clast.op = "lruk_access"
    /\ clast.hit
    /\ lruk.misses[clast.key] = 1

====
